---- MODULE Spec2Model ----
(***************************************************************************)
(* TimeSeriesAggregator (data_aggregator.py): load the sheets of a         *)
(* workbook, merge them on "Date Time", filter by an epoch-ms window,      *)
(* aggregate per time bucket, save and plot.                               *)
(*                                                                         *)
(* Strings are sequences of one-character strings. An optional value       *)
(* (Python's None or a value) is a sequence of length 0 or 1. The cells of *)
(* a table are tagged records (number, text, null); a timestamp is a       *)
(* tagged record (a time in epoch ms, or NaT).                             *)
(*                                                                         *)
(* The result table of aggregate_data is modelled by its columns (name,    *)
(* source column, statistic, kind); the bucket rows and the statistic      *)
(* values are not tracked.                                                 *)
(***************************************************************************)
EXTENDS Integers, Sequences, FiniteSets, TLC

VARIABLES
    workbook,      \* the sheets of the file at file_path, in workbook order
    columns,       \* self.columns: None or a list of requested names
    stats,         \* self.stats: list of statistic tokens
    timefrom,      \* self.timefrom: None or epoch ms
    timeto,        \* self.timeto: None or epoch ms
    plot_enabled,  \* self.plot_enabled
    df,            \* self.df: None or the table
    merged_df,     \* the value load_and_merge_excel returned
    col_map,       \* self.col_map: insertion-ordered dict, normalized -> prefixed
    available,     \* aggregate_data's local: None or map_columns' result
    agg_input,     \* aggregate_data's local df after column selection: None or names
    grouped,       \* self.grouped: None or the result table's columns
    csv,           \* the header written by save_results: None or names
    figure,        \* the labels plotted by plot_results: None or labels
    stdout,        \* the lines printed so far
    pc,            \* position in run(): the next step, "done" or "failed"
    err            \* None or the exception that ended the run

vars == <<workbook, columns, stats, timefrom, timeto, plot_enabled, df, merged_df,
          col_map, available, agg_input, grouped, csv, figure, stdout, pc, err>>

(***************************************************************************)
(* Bounds of the model.                                                    *)
(***************************************************************************)
MaxSheets == 4
MaxReq == 2
MaxStats == 2

(***************************************************************************)
(* Optional values and generic helpers.                                    *)
(***************************************************************************)
None == <<>>
Some(x) == <<x>>

Range(s) == {s[i] : i \in 1..Len(s)}

InjSeqs(S, lo, hi) ==
    UNION {{s \in [1..n -> S] : \A i, j \in 1..n : s[i] = s[j] => i = j} : n \in lo..hi}

Seqs(S, lo, hi) == UNION {[1..n -> S] : n \in lo..hi}

\* A call whose arguments are evaluated once, before the call, as Python does
Call1(F(_), a) == CHOOSE r \in {F(x) : x \in {a}} : TRUE

Call2(F(_, _), a, b) == CHOOSE r \in {F(x, y) : x \in {a}, y \in {b}} : TRUE

Call3(F(_, _, _), a, b, c) ==
    CHOOSE r \in {F(x, y, z) : x \in {a}, y \in {b}, z \in {c}} : TRUE

Call4(F(_, _, _, _), a, b, c, d) ==
    CHOOSE r \in {F(w, x, y, z) : w \in {a}, x \in {b}, y \in {c}, z \in {d}} : TRUE

Call6(F(_, _, _, _, _, _), a, b, c, d, e, f) ==
    CHOOSE r \in {F(u, v, w, x, y, z) :
                     u \in {a}, v \in {b}, w \in {c}, x \in {d}, y \in {e}, z \in {f}} : TRUE

RECURSIVE Flatten(_)
Flatten(ss) == IF ss = <<>> THEN <<>> ELSE Head(ss) \o Call1(Flatten, Tail(ss))

(***************************************************************************)
(* Characters and str methods.                                             *)
(***************************************************************************)
LowerLetters == <<"a","b","c","d","e","f","g","h","i","j","k","l","m",
                  "n","o","p","q","r","s","t","u","v","w","x","y","z">>
UpperLetters == <<"A","B","C","D","E","F","G","H","I","J","K","L","M",
                  "N","O","P","Q","R","S","T","U","V","W","X","Y","Z">>

str_lower(s) ==
    [i \in 1..Len(s) |->
        IF \E j \in 1..26 : UpperLetters[j] = s[i]
        THEN LowerLetters[CHOOSE j \in 1..26 : UpperLetters[j] = s[i]]
        ELSE s[i]]

\* needle in hay (Python's substring test)
str_in(needle, hay) ==
    \E i \in 0..(Len(hay) - Len(needle)) : SubSeq(hay, i + 1, i + Len(needle)) = needle

\* s.replace(old, ""), left to right, non-overlapping (old is not empty)
RECURSIVE str_remove(_, _)
str_remove(s, old) ==
    IF s = <<>> THEN <<>>
    ELSE IF Len(s) >= Len(old) /\ SubSeq(s, 1, Len(old)) = old
         THEN Call2(str_remove, SubSeq(s, Len(old) + 1, Len(s)), old)
         ELSE <<Head(s)>> \o Call2(str_remove, Tail(s), old)

\* s.rsplit(sep, 1)[0] for a one-character sep
str_rsplit_head(s, sep) ==
    IF \E i \in 1..Len(s) : s[i] = sep
    THEN LET last == CHOOSE i \in 1..Len(s) :
                        s[i] = sep /\ \A j \in (i + 1)..Len(s) : s[j] # sep
         IN  SubSeq(s, 1, last - 1)
    ELSE s

RECURSIVE str_lstrip(_)
str_lstrip(s) ==
    IF s # <<>> /\ Head(s) = " " THEN Call1(str_lstrip, Tail(s)) ELSE s

RECURSIVE str_rstrip(_)
str_rstrip(s) ==
    IF s # <<>> /\ s[Len(s)] = " "
    THEN Call1(str_rstrip, SubSeq(s, 1, Len(s) - 1)) ELSE s

str_strip(s) == Call1(str_rstrip, Call1(str_lstrip, s))

(***************************************************************************)
(* normalize_col_name: lowercase, then keep only the letters a-z.          *)
(***************************************************************************)
IsLowerLetter(c) == \E j \in 1..26 : LowerLetters[j] = c

normalize_col_name(col) == SelectSeq(Call1(str_lower, col), IsLowerLetter)

(***************************************************************************)
(* self.col_map, a dict: a sequence of [k, v] with distinct keys, in       *)
(* insertion order.  Assigning an existing key keeps its position.         *)
(***************************************************************************)
\* dict_set with a re-assigned key moved to the end
dict_set_moves_key(d, key, val) ==
    Append(SelectSeq(d, LAMBDA e : e.k # key), [k |-> key, v |-> val])

dict_set(d, key, val) ==
    IF \E i \in 1..Len(d) : d[i].k = key
    THEN [i \in 1..Len(d) |-> IF d[i].k = key THEN [k |-> key, v |-> val] ELSE d[i]]
    ELSE Append(d, [k |-> key, v |-> val])

\* first_match with an exact key preferred to the first containing key
first_match_exact_first(cmap, norm_req) ==
    IF \E i \in 1..Len(cmap) : cmap[i].k = norm_req
    THEN Some(cmap[CHOOSE i \in 1..Len(cmap) : cmap[i].k = norm_req].v)
    ELSE IF \E i \in 1..Len(cmap) : str_in(norm_req, cmap[i].k)
    THEN Some(cmap[CHOOSE i \in 1..Len(cmap) :
                      /\ str_in(norm_req, cmap[i].k)
                      /\ \A j \in 1..(i - 1) : ~str_in(norm_req, cmap[j].k)].v)
    ELSE None

\* next((v for k, v in col_map.items() if norm_req in k), None)
first_match(cmap, norm_req) ==
    IF \E i \in 1..Len(cmap) : str_in(norm_req, cmap[i].k)
    THEN LET first == CHOOSE i \in 1..Len(cmap) :
                         /\ str_in(norm_req, cmap[i].k)
                         /\ \A j \in 1..(i - 1) : ~str_in(norm_req, cmap[j].k)
         IN  Some(cmap[first].v)
    ELSE None

\* map_columns: [mapped, out] - the resolved names and the printed warnings
RECURSIVE map_columns(_, _)
map_columns(cmap, requested_cols) ==
    IF requested_cols = <<>> THEN [mapped |-> <<>>, out |-> <<>>]
    ELSE Call3(LAMBDA req, match, rest :
                   IF match # None /\ match[1] # <<>>
                   THEN [mapped |-> <<match[1]>> \o rest.mapped, out |-> rest.out]
                   ELSE [mapped |-> rest.mapped,
                         out |-> <<[msg |-> "column not found", arg |-> req]>> \o rest.out],
               Head(requested_cols),
               Call2(first_match, cmap, normalize_col_name(Head(requested_cols))),
               Call2(map_columns, cmap, Tail(requested_cols)))

(***************************************************************************)
(* Cells, timestamps and tables.                                           *)
(***************************************************************************)
Null == [k |-> "null", n |-> 0]
Num(n) == [k |-> "num", n |-> n]
Text == [k |-> "text", n |-> 0]

NaT == [k |-> "NaT", ms |-> 0]
Ts(n) == [k |-> "ts", ms |-> n]
Unparseable == [k |-> "bad", ms |-> 0]

DateTime == <<"D","a","t","e"," ","T","i","m","e">>

\* pd.to_datetime(cell, errors="coerce")
to_datetime(cell) == IF cell.k = "ts" THEN cell ELSE NaT

\* the dtype pandas gives a column: numeric unless a cell holds text
col_kind(rows, j) ==
    IF \E i \in 1..Len(rows) : rows[i].vals[j].k = "text" THEN "object" ELSE "number"

(***************************************************************************)
(* The sheets a workbook is made of.  A sheet has a label, its reading     *)
(* columns (the "Date Time" column comes first and is kept apart) and its  *)
(* rows.                                                                   *)
(***************************************************************************)
SheetA1 ==
    [name |-> <<"I","n","p","u","t"," ","A","_","1">>,
     cols |-> << <<"t">>, <<"P">> >>,
     rows |-> << [dt |-> Ts(1), vals |-> <<Num(5), Num(7)>>],
                 [dt |-> Ts(2), vals |-> <<Num(6), Null>>] >>]

\* same device as SheetA1 and the same reading column; a repeated timestamp
SheetA2 ==
    [name |-> <<"I","n","p","u","t"," ","A","_","2">>,
     cols |-> << <<"t">> >>,
     rows |-> << [dt |-> Ts(2), vals |-> <<Num(8)>>],
                 [dt |-> Ts(2), vals |-> <<Num(9)>>] >>]

\* empty device identifier; a timestamp before the epoch and one that does not parse
SheetE3 ==
    [name |-> <<"I","n","p","u","t"," ","_","3">>,
     cols |-> << <<"t">> >>,
     rows |-> << [dt |-> Ts(-1), vals |-> <<Num(1)>>],
                 [dt |-> Unparseable, vals |-> <<Num(2)>>] >>]

\* two columns with one normalized name, and a text column between them; a
\* label without the marker token, with a blank before the underscore
SheetB4 ==
    [name |-> <<"B"," ","_","4">>,
     cols |-> << <<"T">>, <<"n">>, <<"t">> >>,
     rows |-> << [dt |-> Ts(1), vals |-> <<Num(1), Text, Num(2)>>],
                 [dt |-> Ts(3), vals |-> <<Num(3), Num(4), Null>>] >>]

SheetPool == {SheetA1, SheetA2, SheetE3, SheetB4}

\* sheet names are unique within a workbook, and a workbook has a sheet
Workbooks ==
    {w \in InjSeqs(SheetPool, 1, MaxSheets) :
        \A i, j \in 1..Len(w) : w[i].name = w[j].name => i = j}

(***************************************************************************)
(* load_and_merge_excel                                                    *)
(***************************************************************************)
Marker == <<"I","n","p","u","t"," ">>

\* sheet.replace("Input ", "").rsplit("_", 1)[0].strip()
device_name(sheet_name) ==
    Call1(str_strip, Call2(str_rsplit_head, Call2(str_remove, sheet_name, Marker), "_"))

prefixed_col(device, col) == device \o <<"_">> \o col

\* pd.read_excel, then the "Date Time" column through pd.to_datetime
read_sheet(sheet) ==
    [cols  |-> sheet.cols,
     kinds |-> [j \in 1..Len(sheet.cols) |-> col_kind(sheet.rows, j)],
     rows  |-> [i \in 1..Len(sheet.rows) |->
                  [ts |-> to_datetime(sheet.rows[i].dt), vals |-> sheet.rows[i].vals]]]

\* df.rename(columns={col: new}, inplace=True): every column named col is renamed
rename_col(cols, col, new) == [j \in 1..Len(cols) |-> IF cols[j] = col THEN new ELSE cols[j]]

\* the loop over df.columns (the columns as they were when the loop started):
\* iter is what is left of them, cols the frame's current reading columns
RECURSIVE rename_loop(_, _, _, _)
rename_loop(iter, cols, cmap, device) ==
    IF iter = <<>> THEN [cols |-> cols, cmap |-> cmap]
    ELSE LET col == Head(iter)
         IN  IF col # DateTime
             THEN LET new == prefixed_col(device, col)
                  IN  Call4(rename_loop, Tail(iter), rename_col(cols, col, new),
                            Call3(dict_set, cmap, normalize_col_name(new), new), device)
             ELSE Call4(rename_loop, Tail(iter), cols, cmap, device)

(***************************************************************************)
(* pd.merge(left, right, on="Date Time", how="outer")                      *)
(***************************************************************************)
SuffixX == <<"_","x">>
SuffixY == <<"_","y">>

\* the labels of one side: a column both sides have gets the side's suffix
merge_labels(cols, other, suffix) ==
    [j \in 1..Len(cols) |-> IF cols[j] \in Range(other) THEN cols[j] \o suffix ELSE cols[j]]

\* a suffix made a label a duplicate although the column's own name was not one
suffix_dups(cols, labels) ==
    \E j \in 1..Len(cols) :
        /\ \E i \in 1..(j - 1) : labels[i] = labels[j]
        /\ ~\E i \in 1..(j - 1) : cols[i] = cols[j]

\* the order of the keys in the result: ascending, NaT last
ts_less(a, b) == a.k = "ts" /\ (b.k = "NaT" \/ a.ms < b.ms)

RECURSIVE sorted_keys(_)
sorted_keys(S) ==
    IF S = {} THEN <<>>
    ELSE Call1(LAMBDA m : <<m>> \o Call1(sorted_keys, S \ {m}),
               CHOOSE a \in S : \A b \in S \ {a} : ts_less(a, b))

rows_with(rows, key) == SelectSeq(rows, LAMBDA r : r.ts = key)

nulls(n) == [j \in 1..n |-> Null]

\* the rows of one key: every left row with every right row; a side without
\* the key contributes nulls (null keys match each other)
merge_block(key, lrows, rrows, nl, nr) ==
    Call2(LAMBDA L, R :
              IF L # <<>> /\ R # <<>>
              THEN Call1(Flatten, [i \in 1..Len(L) |->
                       [j \in 1..Len(R) |-> [ts |-> key, vals |-> L[i].vals \o R[j].vals]]])
              ELSE IF L # <<>>
              THEN [i \in 1..Len(L) |-> [ts |-> key, vals |-> L[i].vals \o nulls(nr)]]
              ELSE [j \in 1..Len(R) |-> [ts |-> key, vals |-> nulls(nl) \o R[j].vals]],
          rows_with(lrows, key), rows_with(rrows, key))

\* merge_outer with how="left": only the keys of the left frame
merge_left(left, right) ==
    Call3(LAMBDA llabels, rlabels, keys :
              [df |-> Some([cols  |-> llabels \o rlabels,
                            kinds |-> left.kinds \o right.kinds,
                            rows  |-> Call1(Flatten, [n \in 1..Len(keys) |->
                                         merge_block(keys[n], left.rows, right.rows,
                                                     Len(left.cols), Len(right.cols))])]),
               err |-> None],
          merge_labels(left.cols, right.cols, SuffixX),
          merge_labels(right.cols, left.cols, SuffixY),
          Call1(sorted_keys, {left.rows[i].ts : i \in 1..Len(left.rows)}))

\* [df, err]: the merged frame, or the MergeError pandas raises
merge_outer(left, right) ==
    Call3(LAMBDA llabels, rlabels, keys :
              IF suffix_dups(left.cols, llabels) \/ suffix_dups(right.cols, rlabels)
              THEN [df |-> None, err |-> Some("MergeError")]
              ELSE [df |-> Some([cols  |-> llabels \o rlabels,
                                 kinds |-> left.kinds \o right.kinds,
                                 rows  |-> Call1(Flatten, [n \in 1..Len(keys) |->
                                              merge_block(keys[n], left.rows, right.rows,
                                                          Len(left.cols), Len(right.cols))])]),
                    err |-> None],
          merge_labels(left.cols, right.cols, SuffixX),
          merge_labels(right.cols, left.cols, SuffixY),
          Call1(sorted_keys, {left.rows[i].ts : i \in 1..Len(left.rows)}
                             \cup {right.rows[i].ts : i \in 1..Len(right.rows)}))

(***************************************************************************)
(* load_and_merge_excel: the loop over xls.sheet_names from sheet i on.    *)
(* count, merged_df and the col_map are the loop's state; out collects the *)
(* printed lines.                                                          *)
(***************************************************************************)
SkipCount == 2

\* the test that skips a sheet
skip_sheet(count) == count = SkipCount

\* one processed sheet: read, rename, register; [df, cmap]
process_sheet(sheet, cmap) ==
    Call1(LAMBDA frame :
              Call1(LAMBDA ren : [df |-> [frame EXCEPT !.cols = ren.cols], cmap |-> ren.cmap],
                    Call4(rename_loop, <<DateTime>> \o frame.cols, frame.cols, cmap,
                          device_name(sheet.name))),
          read_sheet(sheet))

RECURSIVE load_loop(_, _, _, _, _, _)
load_loop(sheets, i, count, merged, cmap, out) ==
    IF i > Len(sheets)
    THEN [df |-> merged, cmap |-> cmap, out |-> out, err |-> None]
    ELSE IF skip_sheet(count)
    THEN Call6(load_loop, sheets, i + 1, count, merged, cmap,
               Append(out, [msg |-> "skipping sheet", arg |-> sheets[i].name]))
    ELSE Call1(LAMBDA p :
                   Call1(LAMBDA m :
                             IF m.err # None
                             THEN [df |-> merged, cmap |-> p.cmap, out |-> out, err |-> m.err]
                             ELSE Call6(load_loop, sheets, i + 1, count + 1, m.df, p.cmap, out),
                         IF merged = None THEN [df |-> Some(p.df), err |-> None]
                         ELSE Call2(merge_outer, merged[1], p.df)),
               Call2(process_sheet, sheets[i], cmap))

(***************************************************************************)
(* apply_time_filters                                                      *)
(***************************************************************************)
\* "if self.timefrom:" / "if self.timeto:" - the test that applies a bound
bound_applies(bound) == bound # None /\ bound[1] # 0

\* df["Date Time"] >= pd.to_datetime(bound, unit="ms"); NaT compares False
at_or_after(ts, ms) == ts.k = "ts" /\ ts.ms >= ms

\* df["Date Time"] <= pd.to_datetime(bound, unit="ms"); NaT compares False
at_or_before(ts, ms) == ts.k = "ts" /\ ts.ms <= ms

time_filtered(frame, from, to) ==
    LET r1 == IF bound_applies(from)
              THEN SelectSeq(frame.rows, LAMBDA r : at_or_after(r.ts, from[1]))
              ELSE frame.rows
        r2 == IF bound_applies(to)
              THEN SelectSeq(r1, LAMBDA r : at_or_before(r.ts, to[1]))
              ELSE r1
    IN  [frame EXCEPT !.rows = r2]

(***************************************************************************)
(* aggregate_data                                                          *)
(***************************************************************************)
StatMin    == <<"m","i","n">>
StatMax    == <<"m","a","x">>
StatMean   == <<"m","e","a","n">>
StatMedian == <<"m","e","d","i","a","n">>
StatMode   == <<"m","o","d","e">>
LastName   == <<"l","a","s","t">>
LambdaName == <<"<","l","a","m","b","d","a",">">>

\* the name pandas gives the result of one entry of funcs: a string names
\* itself, the lambda appended for "mode" is named by its __name__
func_name(s) == IF s = StatMode THEN LambdaName ELSE s

\* the if/elif chain over self.stats: the functions collected for a numeric column
RECURSIVE funcs_of(_)
funcs_of(ss) ==
    IF ss = <<>> THEN <<>>
    ELSE LET s == Head(ss)
         IN  (IF s \in {StatMin, StatMax, StatMean, StatMedian, StatMode}
              THEN <<func_name(s)>> ELSE <<>>) \o funcs_of(Tail(ss))

\* "if self.columns:" - a list that is neither None nor empty
columns_requested(cols) == cols # None /\ cols[1] # <<>>

\* the positions df[names] selects, in the order of names
selected_positions(cols, names) ==
    Call1(Flatten, [n \in 1..Len(names) |->
        SelectSeq([j \in 1..Len(cols) |-> j], LAMBDA j : cols[j] = names[n])])

names_of_kind(cols, kinds, pos, kind) ==
    Call1(LAMBDA keep : [n \in 1..Len(keep) |-> cols[keep[n]]],
          SelectSeq(pos, LAMBDA j : kinds[j] = kind))

\* a dict filled by assigning the items in order
RECURSIVE dict_of(_)
dict_of(items) ==
    IF items = <<>> THEN <<>>
    ELSE Call3(dict_set, Call1(dict_of, SubSeq(items, 1, Len(items) - 1)),
               items[Len(items)].k, items[Len(items)].v)

\* agg_funcs: numeric columns get the list funcs, then the others get "last"
agg_funcs_of(numeric_cols, non_numeric_cols, funcs) ==
    Call1(dict_of,
          [n \in 1..Len(numeric_cols) |->
              [k |-> numeric_cols[n], v |-> [list |-> TRUE, fns |-> funcs]]]
          \o [n \in 1..Len(non_numeric_cols) |->
              [k |-> non_numeric_cols[n], v |-> [list |-> FALSE, fns |-> <<LastName>>]]])

\* the name of a flattened column: "<colname>_<stat>" when more than one
\* statistic was requested, colname otherwise
flat_name(colname, stat, nstats) ==
    IF nstats > 1 THEN colname \o <<"_">> \o stat ELSE colname

\* the columns of grouped after flattening: tuples (colname, stat) when some
\* entry of agg_funcs is a list, plain names otherwise
grouped_columns(agg_funcs, nstats) ==
    IF \E i \in 1..Len(agg_funcs) : agg_funcs[i].v.list
    THEN Call1(Flatten, [i \in 1..Len(agg_funcs) |->
            [f \in 1..Len(agg_funcs[i].v.fns) |->
                [name |-> flat_name(agg_funcs[i].k, agg_funcs[i].v.fns[f], nstats),
                 src  |-> agg_funcs[i].k,
                 stat |-> agg_funcs[i].v.fns[f],
                 kind |-> IF agg_funcs[i].v.list THEN "number" ELSE "object"]]])
    ELSE [i \in 1..Len(agg_funcs) |->
            [name |-> agg_funcs[i].k, src |-> agg_funcs[i].k,
             stat |-> LastName, kind |-> "object"]]

\* the whole of aggregate_data on frame: [available, input, grouped, out, err]
aggregate(frame, cmap, cols, ss) ==
    Call2(LAMBDA mc, pos :
        Call3(LAMBDA avail, input, agg_funcs :
            LET fail(e) == [available |-> avail, input |-> None, grouped |-> None,
                            out |-> mc.out, err |-> Some(e)]
            IN  IF columns_requested(cols) /\ mc.mapped = <<>>
                THEN fail("ValueError: no requested columns matched")
                ELSE IF \E n \in 1..Len(mc.mapped) : mc.mapped[n] \notin Range(frame.cols)
                THEN fail("KeyError: not in columns")
                ELSE IF \E i \in 1..Len(agg_funcs) : agg_funcs[i].v.fns = <<>>
                THEN [fail("ValueError: no results") EXCEPT !.input = Some(input)]
                ELSE [available |-> avail,
                      input     |-> Some(input),
                      grouped   |-> Some(Call2(grouped_columns, agg_funcs, Len(ss))),
                      out       |-> mc.out,
                      err       |-> None],
            IF columns_requested(cols) THEN Some(mc.mapped) ELSE None,
            [n \in 1..Len(pos) |-> frame.cols[pos[n]]],
            Call3(agg_funcs_of,
                  Call4(names_of_kind, frame.cols, frame.kinds, pos, "number"),
                  Call4(names_of_kind, frame.cols, frame.kinds, pos, "object"),
                  Call1(funcs_of, ss))),
        IF columns_requested(cols) THEN Call2(map_columns, cmap, cols[1])
        ELSE [mapped |-> <<>>, out |-> <<>>],
        IF columns_requested(cols)
        THEN Call2(selected_positions, frame.cols,
                   Call2(map_columns, cmap, cols[1]).mapped)
        ELSE [j \in 1..Len(frame.cols) |-> j])

(***************************************************************************)
(* plot_results: the label of a plotted column                             *)
(***************************************************************************)
\* next((v for k, v in col_map.items() if v in col), col)
original_name(cmap, col) ==
    IF \E i \in 1..Len(cmap) : str_in(cmap[i].v, col)
    THEN cmap[CHOOSE i \in 1..Len(cmap) :
                 /\ str_in(cmap[i].v, col)
                 /\ \A j \in 1..(i - 1) : ~str_in(cmap[j].v, col)].v
    ELSE col

plot_labels(cmap, gcols) ==
    Call1(LAMBDA numeric : [n \in 1..Len(numeric) |-> original_name(cmap, numeric[n].name)],
          SelectSeq(gcols, LAMBDA c : c.kind = "number"))

(***************************************************************************)
(* The parameters of a run.  Requests that resolve to one column twice and *)
(* statistics lists that repeat a token are left out.                      *)
(***************************************************************************)
RequestPool == { <<"T">>, <<"P">>, <<"z">>, <<"1">> }

StatFoo == <<"f","o","o">>
StatPool == {StatMin, StatMax, StatMean, StatMedian, StatMode, StatFoo}

ColumnChoices == {None} \cup {Some(r) : r \in Seqs(RequestPool, 0, MaxReq)}
StatChoices == InjSeqs(StatPool, 1, MaxStats)
TimeChoices == {None, Some(0), Some(2)}

DefaultStats == <<StatMean>>

\* at most one of: column selection, statistics, time window, plotting is not
\* the default
Params ==
    {p \in [columns : ColumnChoices, stats : {DefaultStats},
            timefrom : {None}, timeto : {None}, plot : {FALSE}] : TRUE}
    \cup [columns : {None}, stats : StatChoices,
          timefrom : {None}, timeto : {None}, plot : {FALSE}]
    \cup [columns : {None}, stats : {DefaultStats},
          timefrom : TimeChoices, timeto : TimeChoices, plot : {FALSE}]
    \cup [columns : {None}, stats : {DefaultStats, <<StatMean, StatMode>>},
          timefrom : {None}, timeto : {None}, plot : {TRUE}]

distinct_elems(s) == \A i, j \in 1..Len(s) : s[i] = s[j] => i = j

Init ==
    /\ \E w \in Workbooks :
          LET cmap == Call6(load_loop, w, 1, 0, None, <<>>, <<>>).cmap
          IN  \E p \in Params :
                 /\ columns_requested(p.columns) =>
                        distinct_elems(map_columns(cmap, p.columns[1]).mapped)
                 /\ workbook = w
                 /\ columns = p.columns
                 /\ stats = p.stats
                 /\ timefrom = p.timefrom
                 /\ timeto = p.timeto
                 /\ plot_enabled = p.plot
    /\ df = None
    /\ merged_df = None
    /\ col_map = <<>>
    /\ available = None
    /\ agg_input = None
    /\ grouped = None
    /\ csv = None
    /\ figure = None
    /\ stdout = <<>>
    /\ pc = "load"
    /\ err = None

(***************************************************************************)
(* run(): the calls in order; an exception in a step ends the run.         *)
(***************************************************************************)
\* next_step with plot_results called before save_results
next_step_plot_first(step, raised) ==
    IF raised THEN "failed"
    ELSE CASE step = "load"      -> "filter"
           [] step = "filter"    -> "aggregate"
           [] step = "aggregate" -> "plot"
           [] step = "plot"      -> "save"
           [] step = "save"      -> "done"

next_step(step, raised) ==
    IF raised THEN "failed"
    ELSE CASE step = "load"      -> "filter"
           [] step = "filter"    -> "aggregate"
           [] step = "aggregate" -> "save"
           [] step = "save"      -> "plot"
           [] step = "plot"      -> "done"

(***************************************************************************)
(* The steps of run().                                                     *)
(***************************************************************************)
load_and_merge_excel ==
    /\ pc = "load"
    /\ \E r \in {Call6(load_loop, workbook, 1, 0, None, col_map, <<>>)} :
           /\ col_map' = r.cmap
           /\ stdout' = stdout \o r.out
           /\ IF r.err # None
              THEN /\ pc' = next_step("load", TRUE)
                   /\ err' = r.err
                   /\ UNCHANGED <<df, merged_df>>
              ELSE /\ df' = r.df
                   /\ merged_df' = r.df
                   /\ pc' = next_step("load", FALSE)
                   /\ err' = None
    /\ UNCHANGED <<workbook, columns, stats, timefrom, timeto, plot_enabled,
                   available, agg_input, grouped, csv, figure>>

apply_time_filters ==
    /\ pc = "filter"
    /\ IF df = None
       THEN /\ pc' = next_step("filter", TRUE)
            /\ err' = Some("TypeError: NoneType")
            /\ UNCHANGED <<df, stdout>>
       ELSE /\ df' = Some(time_filtered(df[1], timefrom, timeto))
            /\ stdout' = Append(stdout, [msg |-> "rows after time filter",
                                         arg |-> Len(df'[1].rows)])
            /\ pc' = next_step("filter", FALSE)
            /\ err' = None
    /\ UNCHANGED <<workbook, columns, stats, timefrom, timeto, plot_enabled, merged_df,
                   col_map, available, agg_input, grouped, csv, figure>>

aggregate_data ==
    /\ pc = "aggregate"
    /\ \E r \in {Call4(aggregate, df[1], col_map, columns, stats)} :
           /\ available' = r.available
           /\ agg_input' = r.input
           /\ grouped' = r.grouped
           /\ stdout' = stdout \o r.out
           /\ err' = r.err
           /\ pc' = next_step("aggregate", r.err # None)
    /\ UNCHANGED <<workbook, columns, stats, timefrom, timeto, plot_enabled, df,
                   merged_df, col_map, csv, figure>>

save_results ==
    /\ pc = "save"
    /\ csv' = Some(<<DateTime>> \o [n \in 1..Len(grouped[1]) |-> grouped[1][n].name])
    /\ stdout' = stdout \o <<[msg |-> "head", arg |-> 0], [msg |-> "saved", arg |-> 0]>>
    /\ pc' = next_step("save", FALSE)
    /\ UNCHANGED <<workbook, columns, stats, timefrom, timeto, plot_enabled, df,
                   merged_df, col_map, available, agg_input, grouped, figure, err>>

plot_results ==
    /\ pc = "plot"
    /\ IF ~plot_enabled
       THEN UNCHANGED <<figure, stdout>>
       ELSE IF plot_labels(col_map, grouped[1]) = <<>>
       THEN /\ stdout' = Append(stdout, [msg |-> "no numeric columns to plot", arg |-> 0])
            /\ UNCHANGED figure
       ELSE /\ figure' = Some(plot_labels(col_map, grouped[1]))
            /\ UNCHANGED stdout
    /\ pc' = next_step("plot", FALSE)
    /\ UNCHANGED <<workbook, columns, stats, timefrom, timeto, plot_enabled, df,
                   merged_df, col_map, available, agg_input, grouped, csv, err>>

Next ==
    \/ load_and_merge_excel
    \/ apply_time_filters
    \/ aggregate_data
    \/ save_results
    \/ plot_results

Spec == Init /\ [][Next]_vars

\* run() is a sequence of calls: a step that can run does run
FairSpec == Spec /\ WF_vars(Next)

(***************************************************************************)
(* Helpers the properties share.                                           *)
(***************************************************************************)
Loaded == merged_df # None

Filtered == Loaded /\ pc \notin {"load", "filter"}

AggregateErrors ==
    {"ValueError: no requested columns matched", "KeyError: not in columns",
     "ValueError: no results"}

AggregateFailed == pc = "failed" /\ err # None /\ err[1] \in AggregateErrors

AggregateSucceeded == pc \in {"save", "plot", "done"}

\* the sheets named in the "Skipping sheet" lines
SkippedNames ==
    {stdout[i].arg : i \in {j \in 1..Len(stdout) : stdout[j].msg = "skipping sheet"}}

ProcessedSheets == SelectSeq(workbook, LAMBDA sh : sh.name \notin SkippedNames)

SheetTimestamps(sh) == {to_datetime(sh.rows[i].dt) : i \in 1..Len(sh.rows)}

TableTimestamps(t) == {t.rows[i].ts : i \in 1..Len(t.rows)}

RECURSIVE SumLen(_)
SumLen(ss) == IF ss = <<>> THEN 0 ELSE Len(Head(ss)) + SumLen(Tail(ss))

\* the names "<device>_<original>" of the reading columns of the processed
\* sheets, in sheet order, then column order
RegisteredNames ==
    Flatten([n \in 1..Len(ProcessedSheets) |->
        [c \in 1..Len(ProcessedSheets[n].cols) |->
            prefixed_col(device_name(ProcessedSheets[n].name), ProcessedSheets[n].cols[c])]])

SupportedStats == {StatMin, StatMax, StatMean, StatMedian, StatMode}

(***************************************************************************)
(* C1: for a workbook of n sheets, load_and_merge_excel skips exactly one  *)
(* sheet when n >= 3, the third, and every other sheet (the first, the     *)
(* second, the fourth onward) contributes its columns and timestamps to    *)
(* the merged table; when n < 3 no sheet is skipped.                       *)
(***************************************************************************)
C1_Others == SelectSeq([i \in 1..Len(workbook) |-> i], LAMBDA i : i # 3)

C1_SkipsExactlyTheThird ==
    Loaded =>
        /\ SkippedNames = IF Len(workbook) >= 3 THEN {workbook[3].name} ELSE {}
        /\ Len(merged_df[1].cols) =
              SumLen([n \in 1..Len(C1_Others) |-> workbook[C1_Others[n]].cols])
        /\ \A n \in 1..Len(C1_Others) :
              SheetTimestamps(workbook[C1_Others[n]]) \subseteq TableTimestamps(merged_df[1])

(***************************************************************************)
(* C2: map_columns resolves each request to the canonical name of the      *)
(* first index entry, in insertion order, whose key contains the           *)
(* normalized request as a substring (also when the normalized request is  *)
(* empty, and also when a later key equals it exactly); a request that no  *)
(* key contains contributes nothing to the resolved list.                  *)
(***************************************************************************)
C2_Containing(req) ==
    {i \in 1..Len(col_map) : str_in(normalize_col_name(req), col_map[i].k)}

C2_Resolved(req) ==
    IF C2_Containing(req) = {} THEN <<>>
    ELSE <<col_map[CHOOSE i \in C2_Containing(req) :
                       \A j \in C2_Containing(req) : i <= j].v>>

C2_FirstContainingKeyWins ==
    available # None =>
        available[1] = Flatten([n \in 1..Len(columns[1]) |-> C2_Resolved(columns[1][n])])

\* a request resolved to an earlier key that contains it although a later key
\* equals it
C2_Witness ==
    /\ available # None
    /\ \E n \in 1..Len(columns[1]) : \E i, j \in 1..Len(col_map) :
          /\ i < j
          /\ col_map[j].k = normalize_col_name(columns[1][n])
          /\ col_map[i].k # col_map[j].k
          /\ C2_Resolved(columns[1][n]) = <<col_map[i].v>>
          /\ col_map[i].v \in Range(available[1])

(***************************************************************************)
(* C4: after apply_time_filters the table holds exactly the merged rows    *)
(* whose timestamp t satisfies t >= L if a lower bound L was supplied and  *)
(* t <= U if an upper bound U was supplied, for any integer bound, 0       *)
(* included.                                                               *)
(***************************************************************************)
C4_InWindow(r) ==
    /\ timefrom # None => (r.ts.k = "ts" /\ r.ts.ms >= timefrom[1])
    /\ timeto # None => (r.ts.k = "ts" /\ r.ts.ms <= timeto[1])

C4_FilterKeepsExactlyTheWindow ==
    Filtered => df[1].rows = SelectSeq(merged_df[1].rows, C4_InWindow)

(***************************************************************************)
(* C10: after load_and_merge_excel the index holds exactly one entry per   *)
(* distinct normalized name of the renamed columns of the processed        *)
(* sheets; an entry's value is the canonical name registered last under    *)
(* its key, and the entries are in the order of their keys' first          *)
(* registration.                                                           *)
(***************************************************************************)
C10_Keys(reg) == [n \in 1..Len(reg) |-> normalize_col_name(reg[n])]

C10_FirstRegistrations(keys) ==
    SelectSeq([n \in 1..Len(keys) |-> n], LAMBDA n : \A m \in 1..(n - 1) : keys[m] # keys[n])

C10_LastUnder(reg, keys, key) ==
    reg[CHOOSE n \in 1..Len(reg) :
        /\ keys[n] = key
        /\ \A m \in (n + 1)..Len(reg) : keys[m] # key]

C10_Expected(reg, keys, first) ==
    [e \in 1..Len(first) |->
        [k |-> keys[first[e]], v |-> C10_LastUnder(reg, keys, keys[first[e]])]]

C10_IndexIsFirstOrderLastValue ==
    Loaded =>
        LET reg  == RegisteredNames
            keys == C10_Keys(reg)
        IN  col_map = C10_Expected(reg, keys, C10_FirstRegistrations(keys))

\* a key registered twice, with another key first registered in between, and a
\* sheet skipped
C10_Witness ==
    /\ Loaded
    /\ SkippedNames # {}
    /\ LET reg  == RegisteredNames
           keys == C10_Keys(reg)
       IN  \E a, b, c \in 1..Len(reg) :
              /\ a < b /\ b < c
              /\ keys[a] = keys[c]
              /\ keys[b] # keys[a]
              /\ reg[a] # reg[c]
              /\ \A m \in 1..(b - 1) : keys[m] # keys[b]

(***************************************************************************)
(* C3: aggregate_data fails if and only if columns were requested and none *)
(* of them resolves; when at least one resolves, each unresolved name gets *)
(* a warning only and the aggregation is restricted to exactly the         *)
(* resolved columns, in request order.                                     *)
(***************************************************************************)
C3_Unresolved ==
    SelectSeq(columns[1], LAMBDA req : C2_Containing(req) = {})

C3_ResolvedNames ==
    Flatten([n \in 1..Len(columns[1]) |-> C2_Resolved(columns[1][n])])

C3_Warnings ==
    LET w == SelectSeq(stdout, LAMBDA line : line.msg = "column not found")
    IN  [n \in 1..Len(w) |-> w[n].arg]

C3_FatalIffNothingResolves ==
    (AggregateFailed \/ AggregateSucceeded) =>
        /\ AggregateFailed <=> (columns_requested(columns) /\ C3_ResolvedNames = <<>>)
        /\ (columns_requested(columns) /\ C3_ResolvedNames # <<>>) =>
              /\ AggregateSucceeded
              /\ C3_Warnings = C3_Unresolved
              /\ agg_input = Some(C3_ResolvedNames)

(***************************************************************************)
(* C5: for a numeric column c and a list S of distinct supported           *)
(* statistics, the result table has one column named c when S has one      *)
(* element, and otherwise one column named c_s for each s in S, in request *)
(* order, s being the requested token (c_mode for mode).                   *)
(***************************************************************************)
C5_NumericInputs ==
    {merged_df[1].cols[j] : j \in {i \in 1..Len(merged_df[1].cols) :
        /\ merged_df[1].kinds[i] = "number"
        /\ merged_df[1].cols[i] \in Range(agg_input[1])}}

C5_NamesFor(c) ==
    LET mine == SelectSeq(grouped[1], LAMBDA g : g.src = c)
    IN  [n \in 1..Len(mine) |-> mine[n].name]

C5_ColumnPerRequestedToken ==
    (AggregateSucceeded /\ Range(stats) \subseteq SupportedStats) =>
        \A c \in C5_NumericInputs :
            C5_NamesFor(c) = IF Len(stats) = 1 THEN <<c>>
                             ELSE [n \in 1..Len(stats) |-> c \o <<"_">> \o stats[n]]

(***************************************************************************)
(* C7: after load_and_merge_excel every non-timestamp column of the merged *)
(* table is named <device>_<original> for an original column of a          *)
(* processed sheet, and no two columns share a name, also when two         *)
(* processed sheets have the same device identifier and a reading column   *)
(* of the same name.                                                       *)
(***************************************************************************)
C7_PrefixedAndUnique ==
    Loaded =>
        /\ \A j \in 1..Len(merged_df[1].cols) : merged_df[1].cols[j] \in Range(RegisteredNames)
        /\ distinct_elems(merged_df[1].cols)

(***************************************************************************)
(* C8: a statistics list with tokens outside min, max, mean, median, mode  *)
(* does not make aggregate_data fail: each numeric column yields one       *)
(* output column per supported token, in request order, and none for an    *)
(* unsupported token.                                                      *)
(***************************************************************************)
C8_Supported == SelectSeq(stats, LAMBDA t : t \in SupportedStats)

C8_StatsFor(c) ==
    LET mine == SelectSeq(grouped[1], LAMBDA g : g.src = c)
    IN  [n \in 1..Len(mine) |-> mine[n].stat]

C8_UnsupportedTokensIgnored ==
    ((AggregateFailed \/ AggregateSucceeded) /\ ~(Range(stats) \subseteq SupportedStats)) =>
        /\ err # Some("ValueError: no results")
        /\ AggregateSucceeded =>
              \A c \in C5_NumericInputs :
                  C8_StatsFor(c) = [n \in 1..Len(C8_Supported) |-> func_name(C8_Supported[n])]

(***************************************************************************)
(* C6: after load_and_merge_excel the merged table has exactly one row per *)
(* distinct timestamp: its timestamps are the union of the processed       *)
(* sheets' timestamps, no timestamp occurs in two rows, each row carries   *)
(* the values of every sheet that has its timestamp and nulls in the       *)
(* columns of the sheets that lack it.                                     *)
(* As stated (whatever the sheets hold) it fails; it holds when no         *)
(* processed sheet repeats a timestamp value (null counted as a value).    *)
(***************************************************************************)
C6_Part(t, ps, n, i) ==
    LET off == SumLen([m \in 1..(n - 1) |-> ps[m].cols])
    IN  SubSeq(t.rows[i].vals, off + 1, off + Len(ps[n].cols))

C6_OuterJoin(t, ps) ==
    /\ \A i, j \in 1..Len(t.rows) : t.rows[i].ts = t.rows[j].ts => i = j
    /\ TableTimestamps(t) = UNION {SheetTimestamps(ps[n]) : n \in 1..Len(ps)}
    /\ \A n \in 1..Len(ps) : \A i \in 1..Len(t.rows) :
          IF t.rows[i].ts \in SheetTimestamps(ps[n])
          THEN \E q \in 1..Len(ps[n].rows) :
                  /\ to_datetime(ps[n].rows[q].dt) = t.rows[i].ts
                  /\ C6_Part(t, ps, n, i) = ps[n].rows[q].vals
          ELSE C6_Part(t, ps, n, i) = nulls(Len(ps[n].cols))

C6_NoRepeatedTimestamp(sh) ==
    \A i, j \in 1..Len(sh.rows) :
        to_datetime(sh.rows[i].dt) = to_datetime(sh.rows[j].dt) => i = j

\* the claim as stated
C6_OneRowPerTimestampAlways ==
    Loaded => C6_OuterJoin(merged_df[1], ProcessedSheets)

\* the claim as amended
C6_OneRowPerTimestamp ==
    Loaded =>
        LET ps == ProcessedSheets
        IN  (\A n \in 1..Len(ps) : C6_NoRepeatedTimestamp(ps[n]))
                => C6_OuterJoin(merged_df[1], ps)

\* two merged sheets without repeats that share a timestamp and each have one
\* the other lacks
C6_Witness ==
    /\ Loaded
    /\ LET ps == ProcessedSheets
       IN  /\ Len(ps) = 2
           /\ \A n \in 1..2 : C6_NoRepeatedTimestamp(ps[n])
           /\ SheetTimestamps(ps[1]) \cap SheetTimestamps(ps[2]) # {}
           /\ SheetTimestamps(ps[1]) \ SheetTimestamps(ps[2]) # {}
           /\ SheetTimestamps(ps[2]) \ SheetTimestamps(ps[1]) # {}

(***************************************************************************)
(* C9: in every run load, filter, aggregate, save, plot execute at most    *)
(* once each and in that order, a step only after the previous one ended   *)
(* without error; after a failed aggregate neither save nor plot happens;  *)
(* every run reaches a final state, completed or failed.                   *)
(***************************************************************************)
C9_Moves ==
    {<<"load", "filter">>, <<"filter", "aggregate">>, <<"aggregate", "save">>,
     <<"save", "plot">>, <<"plot", "done">>,
     <<"load", "failed">>, <<"filter", "failed">>, <<"aggregate", "failed">>,
     <<"save", "failed">>, <<"plot", "failed">>}

C9_Step ==
    /\ <<pc, pc'>> \in C9_Moves
    /\ err = None
    /\ (pc' = "failed") <=> (err' # None)
    /\ (merged_df' # merged_df \/ col_map' # col_map) => pc = "load"
    /\ df' # df => pc \in {"load", "filter"}
    /\ (grouped' # grouped \/ available' # available) => pc = "aggregate"
    /\ csv' # csv => pc = "save"
    /\ figure' # figure => pc = "plot"

C9_LinearRun ==
    /\ [][C9_Step]_vars
    /\ [](pc = "failed" => (csv = None /\ figure = None))
    /\ <>(pc \in {"done", "failed"})

\* a run that ended in aggregate_data, nothing saved or plotted
C9_Witness == AggregateFailed /\ grouped = None /\ csv = None /\ figure = None
====
